---- MODULE Spec2Model ----
(***************************************************************************)
(* The generate_embeddings Lambda (backend/src/generate_embeddings/main.py) *)
(* as a state machine: the S3 bucket, the DynamoDB document table, and the  *)
(* position of each invocation of lambda_handler between its external calls.*)
(*                                                                          *)
(* Strings the code inspects (object keys, user ids, paths) are sequences   *)
(* of one-character strings, so that lower(), endswith() and split() are    *)
(* computed the way Python computes them.                                   *)
(***************************************************************************)
EXTENDS Integers, Sequences, FiniteSets, TLC

\* ---------------------------------------------------------------- bounds
\* Number of invocations of lambda_handler in a behaviour (they interleave).
MaxRuns == 2

Runs == 1..MaxRuns

\* ---------------------------------------------------------------- strings
U == <<"u">>
V == <<"v">>
Users == {U, V}

DOT_PDF == <<".", "p", "d", "f">>
SLASH == "/"
INDEX_FAISS == <<"i", "n", "d", "e", "x", ".", "f", "a", "i", "s", "s">>
INDEX_PKL == <<"i", "n", "d", "e", "x", ".", "p", "k", "l">>
TMP == <<"/", "t", "m", "p">>

\* str.lower() on one character, over the alphabet the keys below use.
LowerChar(c) ==
    CASE c = "P" -> "p"
      [] c = "D" -> "d"
      [] c = "F" -> "f"
      [] OTHER -> c

\* key.lower()
lower(s) == [i \in 1..Len(s) |-> LowerChar(s[i])]

\* s.endswith(suffix)
endswith(s, suffix) ==
    /\ Len(s) >= Len(suffix)
    /\ SubSeq(s, Len(s) - Len(suffix) + 1, Len(s)) = suffix

\* s.startswith(prefix)
startswith(s, prefix) ==
    /\ Len(s) >= Len(prefix)
    /\ SubSeq(s, 1, Len(prefix)) = prefix

\* key.lower().endswith('.pdf')
IsPdfKey(key) == endswith(lower(key), DOT_PDF)

\* key.split('/')[-1]: what follows the last '/', the whole key if it has none.
LastSlash(s) ==
    LET P == {i \in 1..Len(s) : s[i] = SLASH}
    IN  IF P = {} THEN 0 ELSE CHOOSE i \in P : \A j \in P : j <= i

file_name_full(key) == SubSeq(key, LastSlash(key) + 1, Len(key))

\* f"/tmp/{file_name_full}"
TmpPath(name) == TMP \o <<SLASH>> \o name

TMP_INDEX_FAISS == TmpPath(INDEX_FAISS)
TMP_INDEX_PKL == TmpPath(INDEX_PKL)

\* f"{user_id}/index.faiss" and f"{user_id}/index.pkl"
FaissKey(user_id) == user_id \o <<SLASH>> \o INDEX_FAISS
PklKey(user_id) == user_id \o <<SLASH>> \o INDEX_PKL

\* The owner's namespace of the bucket: keys that start with "<owner>/".
InNamespace(key, owner) == startswith(key, owner \o <<SLASH>>)

\* ---------------------------------------------------------------- the bucket
K_UA == <<"u", "/", "a", ".", "p", "d", "f">>
K_UDA == <<"u", "/", "d", "/", "a", ".", "p", "d", "f">>
K_UN == <<"u", "/", "n", ".", "t", "x", "t">>
K_VB == <<"v", "/", "b", ".", "P", "D", "F">>
K_VC == <<"v", "/", "c", ".", "p", "d", "f">>

\* Every key the bucket can hold, in the UTF-8 binary order in which
\* list_objects_v2 returns keys.
KeyOrder ==
    << K_UA, K_UDA, FaissKey(U), PklKey(U), K_UN,
       K_VB, K_VC, FaissKey(V), PklKey(V) >>

Range(s) == {s[i] : i \in 1..Len(s)}

Keys == Range(KeyOrder)
SourceKeys == {K_UA, K_UDA, K_UN, K_VB, K_VC}

Absent == [kind |-> "absent"]
Garbage == [kind |-> "garbage"]
Pdf(pages) == [kind |-> "pdf", pages |-> pages]

\* The bytes stored under each source key: PDFs with one text per page, a
\* text file, and a file named .pdf whose bytes are no PDF.
SourceBytes(key) ==
    CASE key = K_UA -> Pdf(<<"ua0", "ua1">>)
      [] key = K_UDA -> Pdf(<<"uda0">>)
      [] key = K_VB -> Pdf(<<"vb0">>)
      [] key = K_VC -> Garbage
      [] OTHER -> [kind |-> "text"]

\* The sets of objects the bucket holds when the behaviour starts: nothing,
\* no PDF, one PDF, two PDFs of one user with the same file name, PDFs of two
\* users, and a file named .pdf that is none.
InitialStores ==
    { {}, {K_UN}, {K_UA}, {K_UA, K_UDA}, {K_UA, K_VB}, {K_VC} }

\* ---------------------------------------------------------------- the table
\* Items of the document table, by (userid, documentid).
DocIds == {<<U, "d1">>, <<U, "d2">>, <<V, "d1">>}

\* Items that exist when the behaviour starts, each with docstatus CREATED.
InitialDocs == {<<U, "d1">>, <<U, "d2">>}

\* The (user, documentid) pairs the messages carry: a document with an item,
\* also delivered twice, and a document of another user that has no item.
Messages == {<<U, "d1">>, <<V, "d1">>}

NoItem == "NO_ITEM"

VARIABLES
    bucket,     \* S3 bucket: key -> stored bytes, or Absent
    table,      \* document table: (userid, documentid) -> docstatus, or NoItem
    pc,         \* position of each invocation in lambda_handler
    event,      \* (user_id, document_id) of each invocation's message
    response,   \* response['Contents'] of each invocation: the listed keys
    idx,        \* position of the for loop in response['Contents']
    tmp,        \* /tmp of each invocation: path -> bytes
    loaders,    \* the loaders list: the paths given to PyPDFLoader
    index,      \* index_from_loader.vectorstore
    err,        \* the call that raised, for an invocation that ended by an exception
    writes,     \* history: the statuses each invocation wrote, in order
    puts,       \* history: the keys each invocation uploaded, in order
    calls       \* history: the external calls each invocation made, in order

vars == <<bucket, table, pc, event, response, idx, tmp, loaders, index, err, writes, puts,
          calls>>

NoEvent == <<<<>>, "">>
NoIndex == [vectors |-> <<>>, docs |-> <<>>, built |-> FALSE]

Init ==
    /\ \E S \in InitialStores :
          bucket = [k \in Keys |-> IF k \in S THEN SourceBytes(k) ELSE Absent]
    /\ table = [d \in DocIds |-> IF d \in InitialDocs THEN "CREATED" ELSE NoItem]
    /\ pc = [r \in Runs |-> "idle"]
    /\ event = [r \in Runs |-> NoEvent]
    /\ response = [r \in Runs |-> <<>>]
    /\ idx = [r \in Runs |-> 0]
    /\ tmp = [r \in Runs |-> <<>>]
    /\ loaders = [r \in Runs |-> <<>>]
    /\ index = [r \in Runs |-> NoIndex]
    /\ err = [r \in Runs |-> "none"]
    /\ writes = [r \in Runs |-> <<>>]
    /\ puts = [r \in Runs |-> <<>>]
    /\ calls = [r \in Runs |-> <<>>]

\* ---------------------------------------------------------------- operations
\* A status write keyed by the user alone: every item of the user is set.
set_doc_status_of_user(tbl, user_id, document_id, status) ==
    [d \in DOMAIN tbl |-> IF d[1] = user_id /\ tbl[d] # NoItem THEN status
                          ELSE IF d = <<user_id, document_id>> THEN status
                          ELSE tbl[d]]

\* document_table.update_item(Key=..., UpdateExpression="SET docstatus = ...")
\* with no ConditionExpression: DynamoDB edits the item, or adds it when no
\* item has this key.
set_doc_status(tbl, user_id, document_id, status) ==
    [tbl EXCEPT ![<<user_id, document_id>>] = status]

\* s3.list_objects_v2(Bucket=BUCKET)['Contents']: every key of the bucket.
list_objects_v2(bkt) == SelectSeq(KeyOrder, LAMBDA k : bkt[k] # Absent)

user_id(r) == event[r][1]
document_id(r) == event[r][2]

\* The external calls of lambda_handler, each with its argument.
CallList == <<"list_objects_v2", <<>>>>
CallStatus(status) == <<"set_doc_status", <<status>>>>
CallDownload(key) == <<"download_file", key>>
CallBuild == <<"from_loaders", <<>>>>
CallSave == <<"save_local", <<>>>>
CallUpload(key) == <<"upload_file", key>>

\* An invocation starts: list the bucket, return at once when it is empty,
\* otherwise read (user, documentid) from the message.
ListObjects(r, u, d) ==
    /\ pc[r] = "idle"
    /\ \A q \in Runs : q < r => pc[q] # "idle"
    /\ LET contents == list_objects_v2(bucket)
       IN  /\ response' = [response EXCEPT ![r] = contents]
           /\ pc' = [pc EXCEPT ![r] =
                        IF contents = <<>> THEN "no_files" ELSE "set_processing"]
    /\ event' = [event EXCEPT ![r] = <<u, d>>]
    /\ calls' = [calls EXCEPT ![r] = Append(@, CallList)]
    /\ UNCHANGED <<bucket, table, idx, tmp, loaders, index, err, writes, puts>>

\* After the loop over response['Contents'], or in it.
AfterFile(r, i) == IF i >= Len(response[r]) THEN "from_loaders" ELSE "loop"

\* set_doc_status(user_id, document_id, "PROCESSING"); loaders = []
SetProcessing(r) ==
    /\ pc[r] = "set_processing"
    /\ table' = set_doc_status(table, user_id(r), document_id(r), "PROCESSING")
    /\ writes' = [writes EXCEPT ![r] = Append(@, "PROCESSING")]
    /\ loaders' = [loaders EXCEPT ![r] = <<>>]
    /\ idx' = [idx EXCEPT ![r] = 1]
    /\ pc' = [pc EXCEPT ![r] = "loop"]
    /\ calls' = [calls EXCEPT ![r] = Append(@, CallStatus("PROCESSING"))]
    /\ UNCHANGED <<bucket, event, response, tmp, index, err, puts>>

\* The loop body with the suffix compared as written, without lower().
LoopBodyCaseSensitive(files, paths, bkt, key) ==
    IF ~endswith(key, DOT_PDF)
    THEN [files |-> files, paths |-> paths]
    ELSE LET path == TmpPath(file_name_full(key))
         IN  [files |-> (path :> bkt[key]) @@ files, paths |-> Append(paths, path)]

\* The body of the for loop on one listed key, on /tmp (files) and the
\* loaders list (paths): a key that is no PDF is skipped; a PDF is downloaded
\* to /tmp/<file name> and a PyPDFLoader for that path is appended.
LoopBody(files, paths, bkt, key) ==
    IF ~IsPdfKey(key)
    THEN [files |-> files, paths |-> paths]
    ELSE LET path == TmpPath(file_name_full(key))
         IN  [files |-> (path :> bkt[key]) @@ files, paths |-> Append(paths, path)]

\* One iteration of the for loop. The download needs the object to be there.
LoopStep(r) ==
    /\ pc[r] = "loop"
    /\ LET key == response[r][idx[r]]
           after == LoopBody(tmp[r], loaders[r], bucket, key)
       IN  /\ IsPdfKey(key) => bucket[key] # Absent
           /\ tmp' = [tmp EXCEPT ![r] = after.files]
           /\ loaders' = [loaders EXCEPT ![r] = after.paths]
    /\ idx' = [idx EXCEPT ![r] = @ + 1]
    /\ pc' = [pc EXCEPT ![r] = AfterFile(r, idx[r])]
    /\ calls' = [calls EXCEPT ![r] =
                   IF IsPdfKey(response[r][idx[r]])
                   THEN Append(@, CallDownload(response[r][idx[r]]))
                   ELSE @]
    /\ UNCHANGED <<bucket, table, event, response, index, err, writes, puts>>

RECURSIVE LoopAll(_, _, _, _)
\* The whole for loop over a listing.
LoopAll(files, paths, bkt, keys) ==
    IF keys = <<>> THEN [files |-> files, paths |-> paths]
    ELSE LET after == LoopBody(files, paths, bkt, Head(keys))
         IN  LoopAll(after.files, after.paths, bkt, Tail(keys))

\* PyPDFLoader.load on the bytes at a path: one Document per page, with
\* metadata source = the path and page = the page number from 0.
LoadPages(path, bytes) ==
    [i \in 1..Len(bytes.pages) |->
        [source |-> path, page |-> i - 1, text |-> bytes.pages[i]]]

RECURSIVE LoadAll(_, _)
\* docs.extend(loader.load()) for each loader in order; the files are read
\* now, from what /tmp holds at this point.
LoadAll(files, paths) ==
    IF paths = <<>> THEN <<>>
    ELSE LoadPages(Head(paths), files[Head(paths)]) \o LoadAll(files, Tail(paths))

\* Some loader's file is no PDF: PyPDFLoader.load raises.
Unparsable(files, paths) == \E i \in 1..Len(paths) : files[paths[i]].kind # "pdf"

\* BedrockEmbeddings.embed_documents: one vector per text, in order. The
\* vector is a function of the text alone.
Embed(text) == <<"vec", text>>

\* from_loaders with the embedder's exception caught and dropped: the handler
\* goes on with a store that holds nothing.
FromLoadersSwallowing(r) ==
    /\ pc[r] = "from_loaders"
    /\ IF Unparsable(tmp[r], loaders[r])
       THEN /\ pc' = [pc EXCEPT ![r] = "failed"]
            /\ err' = [err EXCEPT ![r] = "load"]
            /\ UNCHANGED index
       ELSE LET docs == LoadAll(tmp[r], loaders[r])
            IN  \E ok \in BOOLEAN :
                  /\ index' = [index EXCEPT ![r] =
                         [vectors |-> IF ok THEN [i \in 1..Len(docs) |-> Embed(docs[i].text)]
                                            ELSE <<>>,
                          docs |-> IF ok THEN docs ELSE <<>>,
                          built |-> TRUE]]
                  /\ pc' = [pc EXCEPT ![r] = "save_local"]
                  /\ err' = [err EXCEPT ![r] =
                               IF ok THEN "none"
                               ELSE IF docs = <<>> THEN "empty_index" ELSE "embed"]
    /\ calls' = [calls EXCEPT ![r] = Append(@, CallBuild)]
    /\ UNCHANGED <<bucket, table, event, response, idx, tmp, loaders, writes, puts>>

\* from_loaders that adds the documents to the index already stored for the
\* user instead of building the index anew.
FromLoadersMerging(r) ==
    /\ pc[r] = "from_loaders"
    /\ IF Unparsable(tmp[r], loaders[r])
       THEN /\ pc' = [pc EXCEPT ![r] = "failed"]
            /\ err' = [err EXCEPT ![r] = "load"]
            /\ UNCHANGED index
       ELSE LET stored == bucket[PklKey(user_id(r))]
                docs == (IF stored.kind = "pkl" THEN stored.docs ELSE <<>>)
                            \o LoadAll(tmp[r], loaders[r])
            IN  \E ok \in BOOLEAN :
                  IF ok
                  THEN /\ index' = [index EXCEPT ![r] =
                              [vectors |-> [i \in 1..Len(docs) |-> Embed(docs[i].text)],
                               docs |-> docs,
                               built |-> TRUE]]
                       /\ pc' = [pc EXCEPT ![r] = "save_local"]
                       /\ UNCHANGED err
                  ELSE /\ pc' = [pc EXCEPT ![r] = "failed"]
                       /\ err' = [err EXCEPT ![r] =
                                    IF docs = <<>> THEN "empty_index" ELSE "embed"]
                       /\ UNCHANGED index
    /\ calls' = [calls EXCEPT ![r] = Append(@, CallBuild)]
    /\ UNCHANGED <<bucket, table, event, response, idx, tmp, loaders, writes, puts>>

\* index_creator.from_loaders(loaders): load every loader, embed every text,
\* build the FAISS store. Loading raises on bytes that are no PDF. The
\* embedder is called when there is a text, and may raise. With no text the
\* library either raises or builds an empty store, depending on its version.
FromLoaders(r) ==
    /\ pc[r] = "from_loaders"
    /\ IF Unparsable(tmp[r], loaders[r])
       THEN /\ pc' = [pc EXCEPT ![r] = "failed"]
            /\ err' = [err EXCEPT ![r] = "load"]
            /\ UNCHANGED index
       ELSE LET docs == LoadAll(tmp[r], loaders[r])
            IN  \E ok \in BOOLEAN :
                  IF ok
                  THEN /\ index' = [index EXCEPT ![r] =
                              [vectors |-> [i \in 1..Len(docs) |-> Embed(docs[i].text)],
                               docs |-> docs,
                               built |-> TRUE]]
                       /\ pc' = [pc EXCEPT ![r] = "save_local"]
                       /\ UNCHANGED err
                  ELSE /\ pc' = [pc EXCEPT ![r] = "failed"]
                       /\ err' = [err EXCEPT ![r] =
                                    IF docs = <<>> THEN "empty_index" ELSE "embed"]
                       /\ UNCHANGED index
    /\ calls' = [calls EXCEPT ![r] = Append(@, CallBuild)]
    /\ UNCHANGED <<bucket, table, event, response, idx, tmp, loaders, writes, puts>>

\* The two files of a saved store. index.faiss holds the vectors, index.pkl
\* the documents by vector position. run is the invocation that wrote the
\* file (index.pkl carries ids drawn afresh in each invocation).
FaissBytes(r, store) == [kind |-> "faiss", run |-> r, vectors |-> store.vectors]
PklBytes(r, store) == [kind |-> "pkl", run |-> r, docs |-> store.docs]

\* index_from_loader.vectorstore.save_local("/tmp")
SaveLocal(r) ==
    /\ pc[r] = "save_local"
    /\ tmp' = [tmp EXCEPT ![r] =
                 (TMP_INDEX_FAISS :> FaissBytes(r, index[r])) @@
                 (TMP_INDEX_PKL :> PklBytes(r, index[r])) @@ @]
    /\ pc' = [pc EXCEPT ![r] = "upload_faiss"]
    /\ calls' = [calls EXCEPT ![r] = Append(@, CallSave)]
    /\ UNCHANGED <<bucket, table, event, response, idx, loaders, index, err, writes, puts>>

\* s3.upload_file(path, BUCKET, key)
upload_file(bkt, files, path, key) == [bkt EXCEPT ![key] = files[path]]

\* s3.upload_file("/tmp/index.faiss", BUCKET, f"{user_id}/index.faiss")
UploadFaiss(r) ==
    /\ pc[r] = "upload_faiss"
    /\ bucket' = upload_file(bucket, tmp[r], TMP_INDEX_FAISS, FaissKey(user_id(r)))
    /\ puts' = [puts EXCEPT ![r] = Append(@, FaissKey(user_id(r)))]
    /\ pc' = [pc EXCEPT ![r] = "upload_pkl"]
    /\ calls' = [calls EXCEPT ![r] = Append(@, CallUpload(FaissKey(user_id(r))))]
    /\ UNCHANGED <<table, event, response, idx, tmp, loaders, index, err, writes>>

\* s3.upload_file("/tmp/index.pkl", BUCKET, f"{user_id}/index.pkl")
UploadPkl(r) ==
    /\ pc[r] = "upload_pkl"
    /\ bucket' = upload_file(bucket, tmp[r], TMP_INDEX_PKL, PklKey(user_id(r)))
    /\ puts' = [puts EXCEPT ![r] = Append(@, PklKey(user_id(r)))]
    /\ pc' = [pc EXCEPT ![r] = "set_ready"]
    /\ calls' = [calls EXCEPT ![r] = Append(@, CallUpload(PklKey(user_id(r))))]
    /\ UNCHANGED <<table, event, response, idx, tmp, loaders, index, err, writes>>

\* set_doc_status(user_id, document_id, "READY"), and the handler returns.
SetReady(r) ==
    /\ pc[r] = "set_ready"
    /\ table' = set_doc_status(table, user_id(r), document_id(r), "READY")
    /\ writes' = [writes EXCEPT ![r] = Append(@, "READY")]
    /\ pc' = [pc EXCEPT ![r] = "done"]
    /\ calls' = [calls EXCEPT ![r] = Append(@, CallStatus("READY"))]
    /\ UNCHANGED <<bucket, event, response, idx, tmp, loaders, index, err, puts>>

\* The positions at which the next statement is a call to S3, DynamoDB or the
\* local disk, which can raise; in the loop only a PDF key is downloaded.
CanRaise(r) ==
    \/ pc[r] \in {"set_processing", "save_local", "upload_faiss", "upload_pkl", "set_ready"}
    \/ pc[r] = "loop" /\ IsPdfKey(response[r][idx[r]])

\* The external call that is next at the invocation's position.
NextCall(r) ==
    CASE pc[r] = "set_processing" -> CallStatus("PROCESSING")
      [] pc[r] = "loop" -> CallDownload(response[r][idx[r]])
      [] pc[r] = "save_local" -> CallSave
      [] pc[r] = "upload_faiss" -> CallUpload(FaissKey(user_id(r)))
      [] pc[r] = "upload_pkl" -> CallUpload(PklKey(user_id(r)))
      [] pc[r] = "set_ready" -> CallStatus("READY")

\* How many times the invocation has made a call.
Attempts(r, call) == Cardinality({i \in 1..Len(calls[r]) : calls[r][i] = call})

\* The call that raises is caught and made once more: the invocation stays
\* at its position.
RaiseRetrying(r) ==
    /\ CanRaise(r)
    /\ Attempts(r, NextCall(r)) = 0
    /\ calls' = [calls EXCEPT ![r] = Append(@, NextCall(r))]
    /\ UNCHANGED <<bucket, table, pc, event, response, idx, tmp, loaders, index, err, writes,
                   puts>>

\* The call at the invocation's position raises. lambda_handler has no
\* try/except: the exception leaves the handler and nothing else is done.
Raise(r) ==
    /\ CanRaise(r)
    /\ pc' = [pc EXCEPT ![r] = "failed"]
    /\ err' = [err EXCEPT ![r] = IF pc[r] = "loop" THEN "download" ELSE pc[r]]
    /\ calls' = [calls EXCEPT ![r] = Append(@, NextCall(r))]
    /\ UNCHANGED <<bucket, table, event, response, idx, tmp, loaders, index, writes, puts>>

\* s3.list_objects_v2 raises: the invocation ends before it reads the message.
ListRaises(r) ==
    /\ pc[r] = "idle"
    /\ \A q \in Runs : q < r => pc[q] # "idle"
    /\ pc' = [pc EXCEPT ![r] = "failed"]
    /\ err' = [err EXCEPT ![r] = "list"]
    /\ calls' = [calls EXCEPT ![r] = Append(@, CallList)]
    /\ UNCHANGED <<bucket, table, event, response, idx, tmp, loaders, index, writes, puts>>

Next ==
    \/ \E r \in Runs, m \in Messages : ListObjects(r, m[1], m[2])
    \/ \E r \in Runs : ListRaises(r)
    \/ \E r \in Runs : SetProcessing(r)
    \/ \E r \in Runs : LoopStep(r)
    \/ \E r \in Runs : FromLoaders(r)
    \/ \E r \in Runs : SaveLocal(r)
    \/ \E r \in Runs : UploadFaiss(r)
    \/ \E r \in Runs : UploadPkl(r)
    \/ \E r \in Runs : SetReady(r)
    \/ \E r \in Runs : Raise(r)

Spec == Init /\ [][Next]_vars

\* ---------------------------------------------------------------- properties
Last(s) == s[Len(s)]

\* The invocation ended: it returned, or an exception left the handler.
Returned(r) == pc[r] \in {"done", "no_files"}
Failed(r) == pc[r] = "failed"

\* C1: an invocation that wrote PROCESSING and then ended by an exception
\* (download, load, embedding, build, save, either upload) has written ERROR
\* as its last status; it does not end with PROCESSING as its last write.
C1_FailureWritesError ==
    \A r \in Runs :
        (Failed(r) /\ writes[r] # <<>>) => Last(writes[r]) = "ERROR"

\* The document of the invocation's message had status CREATED when the
\* invocation started: its item was there from the start and no other
\* invocation has written its status.
StartedOnCreated(r) ==
    /\ event[r] \in InitialDocs
    /\ \A q \in Runs \ {r} : event[q] = event[r] => writes[q] = <<>>

\* C2: an invocation in which nothing raised, started on a document whose
\* status was CREATED, wrote the status exactly twice, PROCESSING then READY,
\* and READY is written only once both parts are uploaded under the owner's
\* two names.
C2_SuccessWritesProcessingThenReady ==
    \A r \in Runs :
        /\ (Returned(r) /\ StartedOnCreated(r)) =>
               writes[r] = <<"PROCESSING", "READY">>
        /\ "READY" \in Range(writes[r]) =>
               puts[r] = <<FaissKey(user_id(r)), PklKey(user_id(r))>>

\* The calls up to and including the persisting of the two parts.
BeforeReady ==
    {"list", "set_processing", "download", "load", "embed", "empty_index",
     "save_local", "upload_faiss", "upload_pkl"}

\* C3: an invocation in which the embedder raised, or any call before or
\* during the persisting raised, has not written READY.
C3_NoReadyAfterFailure ==
    \A r \in Runs :
        err[r] \in BeforeReady => "READY" \notin Range(writes[r])

\* C3 witness: an invocation ended by the embedder's exception, after it
\* had written PROCESSING.
C3_Witness ==
    \E r \in Runs : Failed(r) /\ err[r] = "embed" /\ writes[r] = <<"PROCESSING">>

\* C4: an invocation that ended by an exception has uploaded neither part.
C4_FailedRunUploadsNothing ==
    \A r \in Runs : Failed(r) => puts[r] = <<>>

\* Both parts are stored for a user, and one invocation wrote both.
PairOfOneRun(u) ==
    /\ bucket[FaissKey(u)].kind = "faiss"
    /\ bucket[PklKey(u)].kind = "pkl"
    /\ bucket[FaissKey(u)].run = bucket[PklKey(u)].run

\* C5: whenever a document of a user has status READY, both parts are
\* stored under the user's names and one invocation wrote both.
C5_ReadyImpliesPairOfOneRun ==
    \A d \in DocIds : table[d] = "READY" => PairOfOneRun(d[1])

StatusSteps ==
    {<<"CREATED", "PROCESSING">>, <<"PROCESSING", "READY">>, <<"PROCESSING", "ERROR">>}

\* C6: every change of the status of a document that has an item is
\* CREATED to PROCESSING, PROCESSING to READY or PROCESSING to ERROR; READY
\* and ERROR are never left.
C6_StatusMonotonic ==
    [][\A d \in DocIds :
          (table[d] # NoItem /\ table'[d] # table[d]) =>
              <<table[d], table'[d]>> \in StatusSteps]_vars

\* The bucket without the objects of users other than owner.
OwnStore(bkt, owner) ==
    [k \in Keys |-> IF InNamespace(k, owner) THEN bkt[k] ELSE Absent]

\* C7: the store an invocation for owner A builds is the one it builds on
\* the bucket that agrees on A's objects and holds no object of another
\* user: objects outside A's namespace do not change A's artifact.
C7_ArtifactFromOwnObjectsOnly ==
    \A r \in Runs :
        index[r].built =>
            LET own == SelectSeq(response[r], LAMBDA k : InNamespace(k, user_id(r)))
                got == LoopAll(<<>>, <<>>, OwnStore(bucket, user_id(r)), own)
            IN  /\ ~Unparsable(got.files, got.paths)
                /\ index[r].docs = LoadAll(got.files, got.paths)

\* The invocations started for a user.
RunsFor(u) == {r \in Runs : pc[r] # "idle" /\ user_id(r) = u}

\* C8: when two or more invocations for one user have all returned after
\* the READY write, the two parts stored for the user are of one invocation.
C8_FinalPairOfOneRun ==
    \A u \in Users :
        (Cardinality(RunsFor(u)) >= 2 /\ \A r \in RunsFor(u) : pc[r] = "done")
            => PairOfOneRun(u)

\* C9: no step adds an item to the table: a document with no item has none
\* after a status write for it.
C9_NoItemCreated ==
    [][\A d \in DocIds : table[d] = NoItem => table'[d] = NoItem]_vars

\* C10: an invocation whose listing was empty, and in which nothing raised,
\* has written PROCESSING, stored both parts and written READY last.
C10_EmptyListingReachesReady ==
    \A r \in Runs :
        (Returned(r) /\ response[r] = <<>>) =>
            /\ writes[r] # <<>>
            /\ Last(writes[r]) = "READY"
            /\ puts[r] = <<FaissKey(user_id(r)), PklKey(user_id(r))>>

\* No invocation other than r1 and r2 has written a status or a part for
\* the user.
OnlyTheseWrote(r1, r2, u) ==
    \A q \in Runs \ {r1, r2} :
        user_id(q) = u => (writes[q] = <<>> /\ puts[q] = <<>>)

\* The pair stored for the user holds the vectors and the documents of this
\* store (which invocation wrote a part is left aside).
StoredPairIs(u, store) ==
    /\ bucket[FaissKey(u)].kind = "faiss"
    /\ bucket[FaissKey(u)].vectors = store.vectors
    /\ bucket[PklKey(u)].kind = "pkl"
    /\ bucket[PklKey(u)].docs = store.docs

\* C11: when two invocations for the same (user, document) have both
\* returned after the READY write, the pair stored for the user is the one
\* the first of them built alone, the second built the same store, and the
\* status is READY.
C11_DuplicateTriggerIdempotent ==
    \A r1, r2 \in Runs :
        (/\ r1 < r2
         /\ pc[r1] = "done" /\ pc[r2] = "done"
         /\ event[r1] = event[r2]
         /\ OnlyTheseWrote(r1, r2, user_id(r1))) =>
            /\ index[r2].docs = index[r1].docs
            /\ index[r2].vectors = index[r1].vectors
            /\ StoredPairIs(user_id(r1), index[r1])
            /\ table[event[r1]] = "READY"

\* C11 witness: the second invocation listed the bucket when both parts of
\* the first were stored, and both returned with a store that holds pages.
C11_Witness ==
    \E r1, r2 \in Runs :
        /\ r1 < r2
        /\ pc[r1] = "done" /\ pc[r2] = "done"
        /\ event[r1] = event[r2]
        /\ puts[r2] # <<>>
        /\ {FaissKey(user_id(r1)), PklKey(user_id(r1))} \subseteq Range(response[r2])
        /\ index[r1].docs # <<>>

\* The pages of a stored object, numbered from 0; none when it is no PDF.
OwnPages(bytes) ==
    IF bytes.kind = "pdf"
    THEN [i \in 1..Len(bytes.pages) |-> [page |-> i - 1, text |-> bytes.pages[i]]]
    ELSE <<>>

RECURSIVE PagesOfKeys(_, _)
\* For each PDF key of a listing, in order and once, the pages of the bytes
\* stored under that key.
PagesOfKeys(bkt, keys) ==
    IF keys = <<>> THEN <<>>
    ELSE (IF IsPdfKey(Head(keys)) THEN OwnPages(bkt[Head(keys)]) ELSE <<>>)
             \o PagesOfKeys(bkt, Tail(keys))

\* C12: the documents of the store an invocation builds are, for each listed
\* PDF key in order and exactly once, the pages of that key's own bytes,
\* also when two keys have the same file name.
C12_EachKeyOwnPagesOnce ==
    \A r \in Runs :
        index[r].built =>
            [i \in 1..Len(index[r].docs) |->
                [page |-> index[r].docs[i].page, text |-> index[r].docs[i].text]]
              = PagesOfKeys(bucket, response[r])

\* The keys of a listing whose last four characters are ".pdf" in any case.
PdfKeysOf(keys) ==
    SelectSeq(keys, LAMBDA k :
        /\ Len(k) >= 4
        /\ k[Len(k) - 3] = "."
        /\ k[Len(k) - 2] \in {"p", "P"}
        /\ k[Len(k) - 1] \in {"d", "D"}
        /\ k[Len(k)] \in {"f", "F"})

\* The listed keys the for loop has gone through.
Visited(r) == SubSeq(response[r], 1, idx[r] - 1)

\* C13: the downloads an invocation has made are, in order, exactly the
\* visited keys that end in ".pdf" in any case, each loaded from
\* /tmp/<file name>; the two parts stored under a user's names are never
\* among them.
C13_OnlyPdfKeysLoaded ==
    \A r \in Runs :
        LET pdfs == PdfKeysOf(Visited(r))
            done == SelectSeq(calls[r], LAMBDA c : c[1] = "download_file")
        IN  /\ loaders[r] = [i \in 1..Len(pdfs) |-> TmpPath(file_name_full(pdfs[i]))]
            /\ \A i \in 1..Len(loaders[r]) : done[i] = CallDownload(pdfs[i])
            /\ \A i \in 1..Len(done), u \in Users :
                   done[i][2] \notin {FaissKey(u), PklKey(u)}

\* C13 witness: an invocation went through a listing that holds the two
\* stored parts of an earlier invocation and a key ending in .PDF, and
\* loaded the two PDFs.
C13_Witness ==
    \E r \in Runs :
        /\ pc[r] = "from_loaders"
        /\ {FaissKey(U), PklKey(U), K_VB} \subseteq Range(response[r])
        /\ Len(loaders[r]) = 2

\* The invocation that takes the step: the one whose position changes.
Steps(r) == pc'[r] # pc[r]

\* C14: a step of an invocation for (user, document) changes no item of the
\* table but the one keyed by (user, document), and no object of the bucket
\* but the two parts under the user's names; every other item and object,
\* the source objects included, is left as it was, whether the invocation
\* returns or raises.
C14_FrameOfRun ==
    [][\A r \in Runs :
          Steps(r) =>
              /\ \A d \in DocIds : d # event'[r] => table'[d] = table[d]
              /\ \A k \in Keys :
                     k \notin {FaissKey(event'[r][1]), PklKey(event'[r][1])} =>
                         bucket'[k] = bucket[k]]_vars

\* C14 witness: an invocation for (u, d1) has returned after storing both
\* parts and writing READY, next to the item (u, d2) and the objects of v.
C14_Witness ==
    \E r \in Runs :
        /\ pc[r] = "done"
        /\ event[r] = <<U, "d1">>
        /\ table[<<U, "d2">>] = "CREATED"
        /\ bucket[K_VB] = SourceBytes(K_VB)

\* C15: in every invocation the PROCESSING write comes before the listing
\* and before every download: each list_objects_v2 or download_file call is
\* preceded by the call that writes PROCESSING.
C15_ProcessingBeforeListing ==
    \A r \in Runs :
        \A i \in 1..Len(calls[r]) :
            calls[r][i][1] \in {"list_objects_v2", "download_file"} =>
                \E j \in 1..(i - 1) : calls[r][j] = CallStatus("PROCESSING")

\* The part of C15 about the downloads alone.
DownloadsAfterProcessing ==
    \A r \in Runs :
        \A i \in 1..Len(calls[r]) :
            calls[r][i][1] = "download_file" =>
                \E j \in 1..(i - 1) : calls[r][j] = CallStatus("PROCESSING")

\* C16: an invocation makes each external call (the listing, each status
\* write, the download of each PDF key, the index build, the save, each
\* upload) at most once, and the first call that raises ends it: every call
\* it makes is one it has not made before, the step in which a call raises
\* leaves it ended, and an ended invocation makes no further call.
C16_NoRetries ==
    [][\A r \in Runs :
          /\ calls'[r] # calls[r] =>
                 /\ calls'[r] = Append(calls[r], Last(calls'[r]))
                 /\ Last(calls'[r]) \notin Range(calls[r])
          /\ (err[r] = "none" /\ err'[r] # "none") => pc'[r] = "failed"
          /\ Failed(r) => (pc'[r] = "failed" /\ calls'[r] = calls[r])]_vars

\* C16 witness: an invocation ended when the second upload raised, after
\* the listing, the PROCESSING write, two downloads, the build, the save and
\* the first upload, each made once.
C16_Witness ==
    \E r \in Runs :
        /\ Failed(r)
        /\ err[r] = "upload_pkl"
        /\ Len(calls[r]) = 8
        /\ Last(calls[r]) = CallUpload(PklKey(user_id(r)))
====
